---------------------------- MODULE Spec2Model ----------------------------
(***************************************************************************)
(* Model of generate_dmx_table.py: the RGBWA colour pipeline (to_srgb,     *)
(* perceived_brightness, get_color_group, calculate_color_temperature,     *)
(* get_color_wheel_position) applied to one channel quintuple.             *)
(*                                                                         *)
(* Python floats are IEEE-754 binary64.  The pipeline compares rounded     *)
(* products, sums and quotients against thresholds, so the model carries   *)
(* binary64 arithmetic bit for bit: a float is sgn * man * 2^exp with a    *)
(* 53-bit mantissa held as a sequence of 27-bit limbs (TLC integers are    *)
(* 32 bits wide), and every operation rounds to nearest, ties to even.     *)
(* Intermediate values are handed on as operator arguments, not named in   *)
(* LET, so that TLC computes each of them once.                            *)
(***************************************************************************)
EXTENDS Integers, Sequences, FiniteSets, TLC

(***************************************************************************)
(* Natural numbers of any size: little-endian limb sequences, <<>> is 0.   *)
(***************************************************************************)
LimbBits == 20 + 7
Base == 2^LimbBits
HalfBits == 10 + 4
Half == 2^HalfBits
MantBits == 50 + 3

Limb(a, i) == IF i <= Len(a) THEN a[i] ELSE 0

RECURSIVE BTrim(_)
BTrim(a) ==
  IF a = <<>> THEN <<>>
  ELSE IF a[Len(a)] = 0 THEN BTrim(SubSeq(a, 1, Len(a) - 1)) ELSE a

RECURSIVE BOfNat(_)
BOfNat(n) == IF n = 0 THEN <<>> ELSE <<n % Base>> \o BOfNat(n \div Base)

BOne == <<1>>

RECURSIVE BAddFrom(_, _, _, _)
BAddFrom(a, b, i, c) ==
  IF i > Len(a) /\ i > Len(b)
  THEN (IF c = 0 THEN <<>> ELSE <<c>>)
  ELSE LET s == Limb(a, i) + Limb(b, i) + c
       IN  <<s % Base>> \o BAddFrom(a, b, i + 1, s \div Base)

BAdd(a, b) == BAddFrom(a, b, 1, 0)

\* a - b for a >= b
RECURSIVE BSubFrom(_, _, _, _)
BSubFrom(a, b, i, br) ==
  IF i > Len(a) THEN <<>>
  ELSE LET d == Limb(a, i) - Limb(b, i) - br
       IN  IF d < 0 THEN <<d + Base>> \o BSubFrom(a, b, i + 1, 1)
                    ELSE <<d>> \o BSubFrom(a, b, i + 1, 0)

BSub(a, b) == BTrim(BSubFrom(a, b, 1, 0))

\* -1, 0, 1 as a < b, a = b, a > b; compares limbs i..1
RECURSIVE BCmpFrom(_, _, _)
BCmpFrom(a, b, i) ==
  IF i = 0 THEN 0
  ELSE IF a[i] < b[i] THEN -1
  ELSE IF a[i] > b[i] THEN 1
  ELSE BCmpFrom(a, b, i - 1)

BCmp(a, b) ==
  IF Len(a) < Len(b) THEN -1
  ELSE IF Len(a) > Len(b) THEN 1
  ELSE BCmpFrom(a, b, Len(a))

\* a * k for 0 <= k < Half; each limb is multiplied in two halves so that no
\* product leaves 32 bits
RECURSIVE BMulFrom(_, _, _, _)
BMulFrom(a, k, i, c) ==
  IF i > Len(a)
  THEN (IF c = 0 THEN <<>> ELSE <<c>>)
  ELSE LET pl == (a[i] % Half) * k + c
           ph == (a[i] \div Half) * k + (pl \div Half)
       IN  <<(ph % (Base \div Half)) * Half + (pl % Half)>>
             \o BMulFrom(a, k, i + 1, ph \div (Base \div Half))

BMulSmall(a, k) == IF k = 0 THEN <<>> ELSE BMulFrom(a, k, 1, 0)

Zeros(n) == [i \in 1..n |-> 0]

\* a * 2^k
BShl(a, k) ==
  LET r == k % LimbBits
  IN  IF a = <<>> THEN <<>>
      ELSE Zeros(k \div LimbBits)
             \o BTrim([i \in 1..(Len(a) + 1) |->
                         (Limb(a, i) % 2^(LimbBits - r)) * 2^r
                           + (IF i = 1 THEN 0 ELSE a[i - 1] \div 2^(LimbBits - r))])

\* floor(a / 2^k)
BShr(a, k) ==
  LET q == k \div LimbBits
      r == k % LimbBits
      n == Len(a) - q
  IN  IF n <= 0 THEN <<>>
      ELSE BTrim([i \in 1..n |->
                   (a[q + i] \div 2^r) + (Limb(a, q + i + 1) % 2^r) * 2^(LimbBits - r)])

\* bit k of a, bit 0 the lowest
BBit(a, k) == (Limb(a, (k \div LimbBits) + 1) \div 2^(k % LimbBits)) % 2

\* some bit below bit k of a is set
BLowNonzero(a, k) ==
  \/ \E i \in 1..(k \div LimbBits) : Limb(a, i) # 0
  \/ Limb(a, (k \div LimbBits) + 1) % 2^(k % LimbBits) # 0

RECURSIVE NatBits(_)
NatBits(n) == IF n = 0 THEN 0 ELSE 1 + NatBits(n \div 2)

\* number of bits of a
BLen(a) == IF a = <<>> THEN 0 ELSE LimbBits * (Len(a) - 1) + NatBits(a[Len(a)])

(***************************************************************************)
(* binary64: [sgn, man, exp] is sgn * man * 2^exp, man of MantBits bits,   *)
(* or man = <<>> for zero.  No value of the pipeline is subnormal,         *)
(* infinite or NaN: all magnitudes lie between 2^-9 and 2^9.               *)
(***************************************************************************)
FZero == [sgn |-> 1, man |-> <<>>, exp |-> 0]

\* 2^MantBits, one bit too long for a mantissa
MantOver == <<0, 2^(MantBits - LimbBits)>>

\* the float of mantissa q, where rounding up may have carried q to 2^MantBits
Pack(s, q, e) ==
  IF q = MantOver
  THEN [sgn |-> s, man |-> <<0, 2^(MantBits - LimbBits - 1)>>, exp |-> e + 1]
  ELSE [sgn |-> s, man |-> q, exp |-> e]

\* q or q + 1: up when the dropped bits exceed half a unit of q, or equal it
\* and q is odd
RoundUp(q, half, rest) ==
  IF half /\ (rest \/ BBit(q, 0) = 1) THEN BAdd(q, BOne) ELSE q

\* N has MantBits + sh bits
RoundTo(s, N, e, st, sh) ==
  Pack(s,
       RoundUp(IF sh > 0 THEN BShr(N, sh) ELSE BShl(N, -sh),
               sh > 0 /\ BBit(N, sh - 1) = 1,
               st \/ BLowNonzero(N, sh - 1)),
       e + sh)

\* round sgn * (N + t) * 2^e to nearest, ties to even, where 0 < t < 1 when
\* st is set and t = 0 otherwise (st only comes with N longer than MantBits)
FRound(s, N, e, st) ==
  IF N = <<>> THEN FZero ELSE RoundTo(s, N, e, st, BLen(N) - MantBits)

Abs(n) == IF n < 0 THEN -n ELSE n
Sign(n) == IF n < 0 THEN -1 ELSE 1

\* float(n) for an integer n of at most MantBits - LimbBits bits: exact
FOfInt(n) ==
  IF n = 0 THEN FZero
  ELSE LET k == NatBits(Abs(n))
       IN  [sgn |-> Sign(n), man |-> <<0, Abs(n) * 2^(MantBits - LimbBits - k)>>,
            exp |-> k - MantBits]

FNeg(x) == IF x.man = <<>> THEN x ELSE [x EXCEPT !.sgn = -(x.sgn)]
FAbs(x) == [x EXCEPT !.sgn = 1]

\* sx * X * 2^e + sy * Y * 2^e
AddAligned(sx, X, sy, Y, e) ==
  FRound(IF sx = sy \/ BCmp(X, Y) >= 0 THEN sx ELSE sy,
         IF sx = sy THEN BAdd(X, Y)
         ELSE IF BCmp(X, Y) >= 0 THEN BSub(X, Y) ELSE BSub(Y, X),
         e, FALSE)

\* x + y
FAdd(x, y) ==
  IF x.man = <<>> THEN y
  ELSE IF y.man = <<>> THEN x
  ELSE IF x.exp < y.exp
  THEN AddAligned(x.sgn, x.man, y.sgn, BShl(y.man, y.exp - x.exp), x.exp)
  ELSE AddAligned(x.sgn, BShl(x.man, x.exp - y.exp), y.sgn, y.man, y.exp)

\* x - y
FSub(x, y) == FAdd(x, FNeg(y))

\* x * k for an integer k, -Half < k < Half
FMulInt(x, k) == FRound(x.sgn * Sign(k), BMulSmall(x.man, Abs(k)), x.exp, FALSE)

\* long division of two-limb numbers: st = <<qh, ql, rh, rl>> is the quotient
\* so far and the remainder, rem < d = dh * Base + dl; n more quotient bits
\* of rem/d are appended.  DivStep gets the doubled quotient and remainder.
RECURSIVE DivSteps(_, _, _, _)
RECURSIVE DivStep(_, _, _, _, _, _, _)
DivStep(qh, ql, h, l, dh, dl, n) ==
  IF h > dh \/ (h = dh /\ l >= dl)
  THEN DivSteps(<<qh, ql + 1,
                  IF l >= dl THEN h - dh ELSE h - dh - 1,
                  IF l >= dl THEN l - dl ELSE l - dl + Base>>, dh, dl, n - 1)
  ELSE DivSteps(<<qh, ql, h, l>>, dh, dl, n - 1)

DivSteps(st, dh, dl, n) ==
  IF n = 0 THEN st
  ELSE DivStep(2 * st[1] + ((2 * st[2]) \div Base), (2 * st[2]) % Base,
               2 * st[3] + ((2 * st[4]) \div Base), (2 * st[4]) % Base,
               dh, dl, n)

\* the rounded quotient from the state the division ends in: the remainder
\* is the sticky bit
Quot(s, st, e) ==
  FRound(s, BTrim(<<st[2], st[1]>>), e, st[3] # 0 \/ st[4] # 0)

\* n quotient bits of rem / d after the leading bit q0
DivFrom(rem, q0, d, n) ==
  DivSteps(<<0, q0, Limb(rem, 2), Limb(rem, 1)>>, d[2], d[1], n)

\* x / y for y # 0.  Mantissas have two limbs; the quotient is taken to
\* MantBits + 1 bits, the last of them the rounding bit
FDiv(x, y) ==
  IF x.man = <<>> THEN FZero
  ELSE IF BCmp(x.man, y.man) >= 0
  THEN Quot(x.sgn * y.sgn, DivFrom(BSub(x.man, y.man), 1, y.man, MantBits),
            x.exp - y.exp - MantBits)
  ELSE Quot(x.sgn * y.sgn, DivFrom(x.man, 0, y.man, MantBits + 1),
            x.exp - y.exp - MantBits - 1)

\* -1, 0, 1 as x < y, x = y, x > y
FCmp(x, y) ==
  IF x.man = <<>> THEN (IF y.man = <<>> THEN 0 ELSE -(y.sgn))
  ELSE IF y.man = <<>> THEN x.sgn
  ELSE IF x.sgn # y.sgn THEN x.sgn
  ELSE IF x.exp # y.exp THEN (IF x.exp < y.exp THEN -(x.sgn) ELSE x.sgn)
  ELSE x.sgn * BCmp(x.man, y.man)

FLt(x, y) == FCmp(x, y) < 0
FGt(x, y) == FCmp(x, y) > 0
FEq(x, y) == FCmp(x, y) = 0
FGe(x, y) == FCmp(x, y) >= 0

\* Python's max and min of two floats
FMax(x, y) == IF FGt(y, x) THEN y ELSE x
FMin(x, y) == IF FLt(y, x) THEN y ELSE x

\* a decimal literal n/d of the source text: a float literal is the correctly
\* rounded value of its decimal, and so is the quotient of two integers
FLit(n, d) == FDiv(FOfInt(n), FOfInt(d))

\* x / y as Python evaluates it: a zero divisor raises ZeroDivisionError
ZeroDivisionError == [sgn |-> 0, man |-> <<>>, exp |-> 0]
PyDiv(x, y) == IF y.man = <<>> THEN ZeroDivisionError ELSE FDiv(x, y)

\* no reduction at all: a negative quotient stays negative
NoMod(x) == x

\* x % 6 for -6 < x < 6: Python gives the result the sign of the divisor
PyMod6(x) ==
  IF x.man = <<>> \/ x.sgn = 1 THEN x ELSE FAdd(x, FOfInt(6))

(***************************************************************************)
(* The state of the script: the module-level names the loop of line 250    *)
(* and the writers assign, and what they build.  The five functions take   *)
(* their arguments only: none of them reads one of these names.            *)
(***************************************************************************)
VARIABLES
  quin,         \* r, g, b, w, a: the quintuple handed to to_srgb
  pc,           \* the call or the part of the script that comes next
  raised,       \* the exception that left the pipeline, kind "" for none
  color,        \* sr, sg, sb; <<>> before to_srgb has returned
  brightness,   \* -1 before perceived_brightness has returned
  group,        \* main_color and category, empty before get_color_group
  temperature,  \* "" before calculate_color_temperature has returned
  wheel,        \* x, y: the wheel position in polar form
  index,        \* line 248
  combos,       \* line 247
  sorted_by_brightness,      \* line 298, <<>> before the sort
  dmx_colors,                \* the rows written to dmx_colors.csv
  dmx_colors_by_brightness,  \* the rows of dmx_colors_by_brightness.csv
  dots,                      \* the dots of the colour wheel, lines 877-879
  swatches_by_brightness     \* the section of lines 931-933

(***************************************************************************)
(* generate_dmx_table.py                                                   *)
(***************************************************************************)
DMX_STEPS == <<0, 85, 170, 255>>

intensity_names == [v \in {0, 85, 170, 255} |->
  CASE v = 0 -> "Off" [] v = 85 -> "Dim" [] v = 170 -> "Mid" [] v = 255 -> "Full"]

Min2(x, y) == IF x < y THEN x ELSE y
Max3(x, y, z) == CHOOSE m \in {x, y, z} : \A v \in {x, y, z} : v <= m
Min3(x, y, z) == CHOOSE m \in {x, y, z} : \A v \in {x, y, z} : m <= v

\* a validation that stops after the fourth value and never looks at amber
FirstInvalidOfFour(q) ==
  IF \A i \in 1..4 : 0 <= q[i] /\ q[i] <= 255 THEN 0
  ELSE CHOOSE i \in 1..4 : /\ ~(0 <= q[i] /\ q[i] <= 255)
                           /\ \A j \in 1..(i - 1) : 0 <= q[j] /\ q[j] <= 255

\* the first of the five values outside 0..255, as the loop of lines 30-32
\* meets them; 0 when there is none
FirstInvalid(q) ==
  LET bad == {i \in 1..5 : ~(0 <= q[i] /\ q[i] <= 255)}
  IN  IF bad = {} THEN 0 ELSE CHOOSE i \in bad : \A j \in bad : i <= j

\* a conversion that rounds to the nearest integer instead of truncating
ClampRound(x8) == (Min2(x8, 255 * 8) + 4) \div 8

\* a conversion that truncates and leaves out the clamp at 255
NoClamp(x8) == x8 \div 8

\* int(min(x, 255)) of a float x >= 0 given in eighths
ClampInt(x8) == Min2(x8, 255 * 8) \div 8

\* a mix in which amber reaches green at 0.75 without a_scale
AmberUnscaledGreen(r, g, b, w, a) ==
  IF FirstInvalid(<<r, g, b, w, a>>) # 0
  THEN [raised |-> "ValueError", val |-> <<r, g, b, w, a>>[FirstInvalid(<<r, g, b, w, a>>)],
        color |-> <<>>]
  ELSE [raised |-> "", val |-> 0,
        color |-> <<ClampInt(8 * r + 4 * w + 4 * a), ClampInt(8 * g + 4 * w + 6 * a),
                    ClampInt(8 * b + 4 * w)>>]

\* w_scale = a_scale = 0.5 and 0.75 are dyadic, so rr, gg, bb are multiples of
\* 1/8 below 2^10: binary64 holds each sum exactly, and the model computes
\* them in eighths.  The result is the raised ValueError with the value it
\* names, or the colour.
to_srgb(r, g, b, w, a) ==
  LET q   == <<r, g, b, w, a>>
      bad == FirstInvalid(q)
      rr  == 8 * r + 4 * w + 4 * a
      gg  == 8 * g + 4 * w + 3 * a
      bb  == 8 * b + 4 * w
  IN  IF bad # 0
      THEN [raised |-> "ValueError", val |-> q[bad], color |-> <<>>]
      ELSE [raised |-> "", val |-> 0,
            color |-> <<ClampInt(rr), ClampInt(gg), ClampInt(bb)>>]

F0299 == FLit(299, 1000)
F0587 == FLit(587, 1000)
F0114 == FLit(114, 1000)

\* 0.299 * r + 0.587 * g + 0.114 * b, each product and each sum rounded
raw_brightness(r, g, b) ==
  FAdd(FAdd(FMulInt(F0299, r), FMulInt(F0587, g)), FMulInt(F0114, b))

\* a quantizer that has no step above 170
QuantizeNeverFull(raw) ==
  IF FLt(raw, FOfInt(42)) THEN 0
  ELSE IF FLt(raw, FOfInt(127)) THEN 85
  ELSE 170

\* lines 68-75
quantize(raw) ==
  IF FLt(raw, FOfInt(42)) THEN 0
  ELSE IF FLt(raw, FOfInt(127)) THEN 85
  ELSE IF FLt(raw, FOfInt(212)) THEN 170
  ELSE 255

perceived_brightness(r, g, b) == quantize(raw_brightness(r, g, b))

F15 == FLit(15, 10)
F07 == FLit(7, 10)

\* x > y * 1.5 and x > y * 0.7 for integers x, y
GtTimes15(x, y) == FGt(FOfInt(x), FMulInt(F15, y))
GtTimes07(x, y) == FGt(FOfInt(x), FMulInt(F07, y))

\* a choice that has no rule for the tie of green and blue
NoCyanTie(r, g, b) ==
  IF r > g /\ r > b
  THEN IF GtTimes15(g, b)
       THEN <<IF GtTimes07(g, r) THEN "orange" ELSE "red-orange", "warm">>
       ELSE IF GtTimes07(b, r) THEN <<"magenta", "cool">> ELSE <<"red", "warm">>
  ELSE IF g > r /\ g > b
  THEN IF GtTimes15(r, b) THEN <<"yellow-green", "warm">>
       ELSE IF GtTimes07(b, g) THEN <<"teal", "cool">> ELSE <<"green", "cool">>
  ELSE IF b > r /\ b > g
  THEN IF GtTimes15(r, g) THEN <<"purple", "cool">>
       ELSE IF GtTimes07(g, b) THEN <<"cyan", "cool">> ELSE <<"blue", "cool">>
  ELSE IF r = g /\ r > b THEN <<"yellow", "warm">>
  ELSE IF r = b /\ r > g THEN <<"magenta", "cool">>
  ELSE <<"mixed", "neutral">>

\* lines 97-142: <<main_color, category>> by the dominant channel
base_color(r, g, b) ==
  IF r > g /\ r > b
  THEN IF GtTimes15(g, b)
       THEN <<IF GtTimes07(g, r) THEN "orange" ELSE "red-orange", "warm">>
       ELSE IF GtTimes07(b, r) THEN <<"magenta", "cool">> ELSE <<"red", "warm">>
  ELSE IF g > r /\ g > b
  THEN IF GtTimes15(r, b) THEN <<"yellow-green", "warm">>
       ELSE IF GtTimes07(b, g) THEN <<"teal", "cool">> ELSE <<"green", "cool">>
  ELSE IF b > r /\ b > g
  THEN IF GtTimes15(r, g) THEN <<"purple", "cool">>
       ELSE IF GtTimes07(g, b) THEN <<"cyan", "cool">> ELSE <<"blue", "cool">>
  ELSE IF r = g /\ r > b THEN <<"yellow", "warm">>
  ELSE IF r = b /\ r > g THEN <<"magenta", "cool">>
  ELSE IF g = b /\ g > r THEN <<"cyan", "cool">>
  ELSE <<"mixed", "neutral">>

\* a modifier step that takes every colour for a deep one
DeepAlways(main_color, max_val, min_val) ==
  <<"deep">> \o (IF min_val > 170 THEN <<"pastel">> \o main_color ELSE main_color)

\* a modifier step that knows "pastel" only
NeverDeep(main_color, max_val, min_val) ==
  IF min_val > 170 THEN <<"pastel">> \o main_color ELSE main_color

\* lines 144-150: a label is the sequence of its words, so "deep red" is
\* <<"deep", "red">>; f"pastel {main_color}" puts a word in front
modifiers(main_color, max_val, min_val) ==
  LET pastel == IF min_val > 170 THEN <<"pastel">> \o main_color ELSE main_color
  IN  IF max_val < 170 /\ pastel # <<"black">> THEN <<"deep">> \o pastel ELSE pastel

\* lines 86-95 and 144-152 around the choice base of lines 97-142
color_group(base, max_val, min_val) ==
  IF max_val = 0 THEN [label |-> <<"black">>, category |-> "neutral"]
  ELSE IF max_val - min_val < 30
  THEN IF max_val < 85 THEN [label |-> <<"dark gray">>, category |-> "neutral"]
       ELSE IF max_val < 170 THEN [label |-> <<"gray">>, category |-> "neutral"]
       ELSE [label |-> <<"white">>, category |-> "neutral"]
  ELSE [label |-> modifiers(<<base[1]>>, max_val, min_val), category |-> base[2]]

get_color_group(r, g, b) ==
  color_group(base_color(r, g, b), Max3(r, g, b), Min3(r, g, b))

\* v / 255.0
Norm == [v \in 0..255 |-> FDiv(FOfInt(v), FOfInt(255))]

FMax3(x, y, z) == FMax(FMax(x, y), z)
FMin3(x, y, z) == FMin(FMin(x, y), z)

\* lines 170-177 after the division d: % 6 for red, + 2 for green, + 4 for
\* blue, times 60 degrees; or ZeroDivisionError
hue_degrees(d, red, green) ==
  IF d = ZeroDivisionError THEN d
  ELSE FMulInt(IF red THEN PyMod6(d)
               ELSE FAdd(d, IF green THEN FOfInt(2) ELSE FOfInt(4)), 60)

\* lines 170-177: the branch is red when max_val == r, else green when
\* max_val == g, else blue; the channels subtracted follow the branch
wheel_hue(r, g, b, red, green, delta) ==
  IF delta.man = <<>> THEN FZero
  ELSE hue_degrees(PyDiv(FSub(IF red THEN g ELSE IF green THEN b ELSE r,
                              IF red THEN b ELSE IF green THEN r ELSE g), delta),
                   red, green)

\* the brightest channel taken for the saturation
SaturationIsMax(max_val, delta) == max_val

\* lines 180-183
wheel_saturation(max_val, delta) ==
  IF max_val.man = <<>> THEN FZero ELSE PyDiv(delta, max_val)

\* The returned point is x = saturation * cos(radians(hue)),
\* y = saturation * sin(radians(hue)); the model returns it in polar form,
\* hue in degrees and saturation as the radius.  cos and sin have no common
\* zero and are at most 1 in size, so (x, y) = (0, 0) exactly when the
\* saturation is zero, and neither coordinate exceeds the saturation.
wheel_point(max_val, hue, saturation) ==
  IF max_val.man = <<>>
  THEN [raised |-> "", hue |-> FZero, saturation |-> FZero]
  ELSE IF hue = ZeroDivisionError \/ saturation = ZeroDivisionError
  THEN [raised |-> "ZeroDivisionError", hue |-> FZero, saturation |-> FZero]
  ELSE [raised |-> "", hue |-> hue, saturation |-> saturation]

\* lines 161-183 on max_val and delta
wheel_of(r, g, b, max_val, delta) ==
  wheel_point(max_val,
              wheel_hue(r, g, b, FEq(max_val, r), ~FEq(max_val, r) /\ FEq(max_val, g),
                        delta),
              wheel_saturation(max_val, delta))

\* lines 160-167
wheel_normalised(r, g, b) ==
  wheel_of(r, g, b, FMax3(r, g, b), FSub(FMax3(r, g, b), FMin3(r, g, b)))

get_color_wheel_position(r8, g8, b8) ==
  wheel_normalised(Norm[r8], Norm[g8], Norm[b8])

\* x * 1.5 for a float x: 1.5 is 3 * 2^-1, and halving is exact
FTimes15(x) == FMulInt([x EXCEPT !.exp = @ - 1], 3)

F01 == FLit(1, 10)
F02 == FLit(2, 10)

\* a decision order with the green rule of line 230 in front
GreenFirst(r, g, b, rb_ratio, br_ratio) ==
  IF FGt(g, FTimes15(FMax(r, b))) THEN "cool"
  ELSE IF FGt(rb_ratio, FOfInt(3)) THEN "very-warm"
  ELSE IF FGt(rb_ratio, F15) THEN "warm"
  ELSE IF FGt(br_ratio, FOfInt(3)) THEN "very-cool"
  ELSE IF FGt(br_ratio, F15) THEN "cool"
  ELSE IF FLt(FAbs(FSub(r, b)), F01) /\ FGt(r, F07) /\ FGt(g, F07) THEN "neutral"
  ELSE IF FLt(FAbs(FSub(r, b)), F02) THEN "neutral"
  ELSE IF FGt(r, b) THEN "warm" ELSE "cool"

\* lines 222-238 on the two ratios
temperature_of(r, g, b, rb_ratio, br_ratio) ==
  IF FGt(rb_ratio, FOfInt(3)) THEN "very-warm"
  ELSE IF FGt(rb_ratio, F15) THEN "warm"
  ELSE IF FGt(br_ratio, FOfInt(3)) THEN "very-cool"
  ELSE IF FGt(br_ratio, F15) THEN "cool"
  ELSE IF FGt(g, FTimes15(FMax(r, b))) THEN "cool"
  ELSE IF FLt(FAbs(FSub(r, b)), F01) /\ FGt(r, F07) /\ FGt(g, F07) THEN "neutral"
  ELSE IF FLt(FAbs(FSub(r, b)), F02) THEN "neutral"
  ELSE IF FGt(r, b) THEN "warm" ELSE "cool"

\* ratios that divide as soon as one of r, b is positive
EitherPositiveRatios(r, b) ==
  IF FGt(r, FZero) \/ FGt(b, FZero)
  THEN <<PyDiv(r, b), PyDiv(b, r)>>
  ELSE <<FZero, FZero>>

\* lines 209-215: <<rb_ratio, br_ratio>>
ratios(r, b) ==
  IF FGt(r, FZero) /\ FGt(b, FZero)
  THEN <<PyDiv(r, b), PyDiv(b, r)>>
  ELSE <<IF FGt(r, FZero) THEN FOfInt(10) ELSE FZero,
         IF FGt(b, FZero) THEN FOfInt(10) ELSE FZero>>

\* lines 203-238 on the normalised channels and the ratios rr
temperature_normalised(r, g, b, rr) ==
  IF FLt(FMax3(r, g, b), F01) THEN "neutral"
  ELSE IF rr[1] = ZeroDivisionError \/ rr[2] = ZeroDivisionError
  THEN "ZeroDivisionError"
  ELSE temperature_of(r, g, b, rr[1], rr[2])

\* a temperature that looks at the counter of the script before it answers
TemperatureByIndex(r8, g8, b8) ==
  IF index % 2 = 0 THEN "neutral"
  ELSE temperature_normalised(Norm[r8], Norm[g8], Norm[b8], ratios(Norm[r8], Norm[b8]))

calculate_color_temperature(r8, g8, b8) ==
  temperature_normalised(Norm[r8], Norm[g8], Norm[b8], ratios(Norm[r8], Norm[b8]))

(***************************************************************************)
(* The five functions applied to one quintuple, in the order the script    *)
(* calls them: lines 271-282 for a combination, then line 879 for its      *)
(* wheel position.  The functions are followed on every colour they        *)
(* accept, so a run goes on where the loop of line 250 would skip the      *)
(* combination (lines 256 and 275).                                        *)
(***************************************************************************)
\* what one application of the functions assigns, and what the script builds
result_but_pc == <<quin, raised, color, brightness, group, temperature, wheel>>
result == <<quin, pc, raised, color, brightness, group, temperature, wheel>>
script == <<index, combos, sorted_by_brightness, dmx_colors,
            dmx_colors_by_brightness, dots, swatches_by_brightness>>
vars == <<result, script>>

\* the inputs: Levels evenly spaced values per colour channel, with the
\* colours that sit on a threshold of the pipeline; and the DMX steps with
\* values outside 0..255 on all five channels
Levels == 11
Grid == {(255 * k) \div (Levels - 1) : k \in 0..(Levels - 1)}
EdgeColors ==
  { <<0, 0, 0>>, <<255, 255, 255>>, <<200, 200, 200>>, <<255, 0, 0>>,
    <<0, 0, 255>>, <<100, 100, 100>>, <<85, 85, 85>>,
    <<127, 127, 127>>, <<1, 59, 62>>, <<163, 249, 150>>,
    <<0, 71, 0>>, <<0, 72, 0>>, <<0, 216, 0>>, <<0, 217, 0>>,
    <<0, 119, 170>>, <<170, 119, 0>>, <<200, 140, 10>>, <<200, 141, 10>>,
    <<11, 0, 33>>, <<33, 0, 11>>, <<30, 0, 20>>, <<31, 0, 20>>,
    <<100, 0, 49>>, <<151, 0, 100>>, <<100, 151, 100>>,
    <<60, 90, 0>>, <<90, 60, 1>>, <<25, 25, 0>>, <<26, 0, 0>>,
    <<255, 255, 204>>, <<255, 204, 255>>, <<171, 201, 255>>, <<29, 0, 0>>,
    <<30, 0, 0>>, <<199, 170, 199>>, <<169, 169, 139>>,
    <<0, 23, 250>>, <<0, 216, 2>>, <<85, 255, 0>> }
StepValues == {DMX_STEPS[i] : i \in 1..Len(DMX_STEPS)}
OutOfRange == {-1, 256}
Quintuples ==
  {<<c[1], c[2], c[3], 0, 0>> : c \in (Grid \X Grid \X Grid) \cup EdgeColors}
    \cup ((StepValues \cup OutOfRange) \X (StepValues \cup OutOfRange)
            \X (StepValues \cup OutOfRange)
            \X ({0, 85, 255} \cup OutOfRange) \X ({0, 85, 255} \cup OutOfRange))

NoException == [kind |-> "", val |-> 0]
NoGroup == [label |-> <<>>, category |-> ""]
NoWheel == [raised |-> "", hue |-> FZero, saturation |-> FZero]

Init ==
  /\ quin \in Quintuples
  /\ pc = "to_srgb"
  /\ raised = NoException
  /\ color = <<>>
  /\ brightness = -1
  /\ group = NoGroup
  /\ temperature = ""
  /\ wheel = NoWheel
  /\ index = 1
  /\ combos = <<>>
  /\ sorted_by_brightness = <<>>
  /\ dmx_colors = <<>>
  /\ dmx_colors_by_brightness = <<>>
  /\ dots = <<>>
  /\ swatches_by_brightness = <<>>

\* to_srgb, lines 29-56, as called at line 271
ToSrgb ==
  /\ pc = "to_srgb"
  /\ \E res \in {to_srgb(quin[1], quin[2], quin[3], quin[4], quin[5])} :
       /\ raised' = [kind |-> res.raised, val |-> res.val]
       /\ color' = res.color
       /\ pc' = IF res.raised = "" THEN "perceived_brightness" ELSE "raised"
  /\ UNCHANGED <<quin, brightness, group, temperature, wheel>>
  /\ UNCHANGED script

\* perceived_brightness, lines 58-75, as called at line 272
PerceivedBrightness ==
  /\ pc = "perceived_brightness"
  /\ brightness' = perceived_brightness(color[1], color[2], color[3])
  /\ pc' = "get_color_group"
  /\ UNCHANGED <<quin, raised, color, group, temperature, wheel>>
  /\ UNCHANGED script

\* get_color_group, lines 77-152, as called at line 279
GetColorGroup ==
  /\ pc = "get_color_group"
  /\ group' = get_color_group(color[1], color[2], color[3])
  /\ pc' = "calculate_color_temperature"
  /\ UNCHANGED <<quin, raised, color, brightness, temperature, wheel>>
  /\ UNCHANGED script

\* calculate_color_temperature, lines 193-238, as called at line 282
CalculateColorTemperature ==
  /\ pc = "calculate_color_temperature"
  /\ \E t \in {calculate_color_temperature(color[1], color[2], color[3])} :
       IF t = "ZeroDivisionError"
       THEN /\ raised' = [kind |-> t, val |-> 0]
            /\ pc' = "raised"
            /\ UNCHANGED temperature
       ELSE /\ temperature' = t
            /\ pc' = "get_color_wheel_position"
            /\ UNCHANGED raised
  /\ UNCHANGED <<quin, color, brightness, group, wheel>>
  /\ UNCHANGED script

\* get_color_wheel_position, lines 154-191, as called at line 879
GetColorWheelPosition ==
  /\ pc = "get_color_wheel_position"
  /\ \E p \in {get_color_wheel_position(color[1], color[2], color[3])} :
       IF p.raised # ""
       THEN /\ raised' = [kind |-> p.raised, val |-> 0]
            /\ pc' = "raised"
            /\ UNCHANGED wheel
       ELSE /\ wheel' = p
            /\ pc' = "done"
            /\ UNCHANGED raised
  /\ UNCHANGED <<quin, color, brightness, group, temperature>>
  /\ UNCHANGED script

Next ==
  \/ ToSrgb
  \/ PerceivedBrightness
  \/ GetColorGroup
  \/ CalculateColorTemperature
  \/ GetColorWheelPosition

Spec == Init /\ [][Next]_vars

(***************************************************************************)
(* The script from line 243 on: the loop over the grid, the sort, the two  *)
(* CSV files, and of the preview page the dots of the wheel and the        *)
(* section sorted by brightness.  A step is one combination of the loop,   *)
(* or one of the later parts as a whole.  The PNG swatches and the section *)
(* by index recompute the colour and the brightness of each row as the     *)
(* first CSV file does, and are left out.                                  *)
(***************************************************************************)
\* line 243
total_combinations == Len(DMX_STEPS) ^ 5

\* the place of a value in DMX_STEPS, counted from 0
StepIndex(v) == (CHOOSE i \in 1..Len(DMX_STEPS) : DMX_STEPS[i] = v) - 1

\* lines 250-254: the n-th quintuple the nested loops visit, a the fastest,
\* and the number of the visit of a quintuple; 0 before the first
NthStep(n, k) == DMX_STEPS[((n \div (Len(DMX_STEPS) ^ k)) % Len(DMX_STEPS)) + 1]
NthQuintuple(n) ==
  <<NthStep(n - 1, 4), NthStep(n - 1, 3), NthStep(n - 1, 2), NthStep(n - 1, 1),
    NthStep(n - 1, 0)>>
Visit(q) ==
  IF q = <<>> THEN 0
  ELSE 1 + StepIndex(q[5]) + Len(DMX_STEPS) * (StepIndex(q[4]) + Len(DMX_STEPS)
         * (StepIndex(q[3]) + Len(DMX_STEPS) * (StepIndex(q[2])
         + Len(DMX_STEPS) * StepIndex(q[1]))))

\* lines 261-268: the name of a combination, by the names of its five levels
color_name(q) == [i \in 1..5 |-> intensity_names[q[i]]]

\* a row that carries the index after its own
ComboIndexAhead(idx, q, grp, temp) ==
  [idx |-> idx + 1, name |-> color_name(q), quin |-> q, main_color |-> grp.label,
   category |-> grp.category, temperature |-> temp]

\* lines 284-291
combo(idx, q, grp, temp) ==
  [idx |-> idx, name |-> color_name(q), quin |-> q, main_color |-> grp.label,
   category |-> grp.category, temperature |-> temp]

\* lines 279-292 for a combination that is kept
Keep(q, c, br, grp, temp) ==
  /\ color' = c
  /\ brightness' = br
  /\ group' = grp
  /\ IF temp = "ZeroDivisionError"
     THEN /\ raised' = [kind |-> temp, val |-> 0]
          /\ pc' = "raised"
          /\ UNCHANGED <<temperature, index, combos>>
     ELSE /\ temperature' = temp
          /\ combos' = Append(combos, combo(index, q, grp, temp))
          /\ index' = index + 1
          /\ pc' = IF Visit(q) = total_combinations THEN "sorted" ELSE "for"
          /\ UNCHANGED raised

\* lines 271-292 on the result res of to_srgb
Body(q, res) ==
  IF res.raised # ""
  THEN /\ raised' = [kind |-> res.raised, val |-> res.val]
       /\ pc' = "raised"
       /\ UNCHANGED <<color, brightness, group, temperature, index, combos>>
  ELSE \E br \in {perceived_brightness(res.color[1], res.color[2], res.color[3])} :
         IF br = 0
         THEN /\ color' = res.color
              /\ brightness' = br
              /\ pc' = IF Visit(q) = total_combinations THEN "sorted" ELSE "for"
              /\ UNCHANGED <<raised, group, temperature, index, combos>>
         ELSE Keep(q, res.color, br,
                   get_color_group(res.color[1], res.color[2], res.color[3]),
                   calculate_color_temperature(res.color[1], res.color[2], res.color[3]))

\* lines 250-292: the loops move on to the next quintuple and run the body
Combination ==
  /\ pc = "for"
  /\ \E q \in {NthQuintuple(Visit(quin) + 1)} :
       /\ quin' = q
       /\ IF q[1] = 255 /\ q[2] = 255 /\ q[3] = 255
          THEN /\ pc' = IF Visit(q) = total_combinations THEN "sorted" ELSE "for"
               /\ UNCHANGED <<raised, color, brightness, group, temperature,
                              index, combos>>
          ELSE Body(q, to_srgb(q[1], q[2], q[3], q[4], q[5]))
  /\ UNCHANGED <<wheel, sorted_by_brightness, dmx_colors,
                 dmx_colors_by_brightness, dots, swatches_by_brightness>>

\* perceived_brightness(*c) for a colour c = (sr, sg, sb)
brightness_of(c) == perceived_brightness(c[1], c[2], c[3])

\* a key that lets amber count
KeyWithAmber(x) ==
  brightness_of(to_srgb(x.quin[1], x.quin[2], x.quin[3], x.quin[4], x.quin[5]).color)

\* line 300: the key of a row, its brightness with amber left out
brightness_key(x) ==
  brightness_of(to_srgb(x.quin[1], x.quin[2], x.quin[3], x.quin[4], 0).color)

\* sorted() is given the key of every item, and is stable: the items
\* of the least key in their order, then those of the next key, and so on.
\* keyed is the sequence of <<key, item>>, ks the keys still to come.
RECURSIVE by_keys(_, _)
by_keys(keyed, ks) ==
  IF ks = {} THEN <<>>
  ELSE SelectSeq(keyed, LAMBDA p : p[1] \in ks /\ \A k \in ks : p[1] <= k)
         \o by_keys(keyed, {k \in ks : \E j \in ks : j < k})
undecorate(keyed) == [i \in 1..Len(keyed) |-> keyed[i][2]]
sorted(keyed) == undecorate(by_keys(keyed, {keyed[i][1] : i \in 1..Len(keyed)}))

\* line 300: the key of every row is taken first, each once
decorate(iterable) ==
  [i \in 1..Len(iterable) |-> <<brightness_key(iterable[i]), iterable[i]>>]

\* lines 298-301
SortByBrightness ==
  /\ pc = "sorted"
  /\ sorted_by_brightness' = sorted(decorate(combos))
  /\ pc' = "dmx_colors.csv"
  /\ UNCHANGED <<result_but_pc, index, combos, dmx_colors,
                 dmx_colors_by_brightness, dots, swatches_by_brightness>>

\* lines 313-317: a row as it is written, the colour and the brightness
\* computed again from the quintuple of the row
written(row, c, br) ==
  [idx |-> row.idx, name |-> row.name, quin |-> row.quin, color |-> c,
   brightness |-> br, brightness_name |-> intensity_names[br],
   main_color |-> row.main_color, category |-> row.category,
   temperature |-> row.temperature]
\* a writer that leaves amber out as the sort key does
WriteAmberOff(row) ==
  written(row,
          to_srgb(row.quin[1], row.quin[2], row.quin[3], row.quin[4], row.quin[5]).color,
          brightness_of(to_srgb(row.quin[1], row.quin[2], row.quin[3], row.quin[4],
                                0).color))

write_row(row) ==
  written(row,
          to_srgb(row.quin[1], row.quin[2], row.quin[3], row.quin[4], row.quin[5]).color,
          brightness_of(to_srgb(row.quin[1], row.quin[2], row.quin[3], row.quin[4],
                                row.quin[5]).color))

\* the loops of the writers run at module level: r, g, b, w, a, sr, sg, sb,
\* brightness, main_color, category and temperature are left as the last
\* row set them
LastRow(rows) ==
  IF rows = <<>>
  THEN UNCHANGED <<quin, color, brightness, group, temperature>>
  ELSE /\ quin' = rows[Len(rows)].quin
       /\ color' = rows[Len(rows)].color
       /\ brightness' = rows[Len(rows)].brightness
       /\ group' = [label |-> rows[Len(rows)].main_color,
                    category |-> rows[Len(rows)].category]
       /\ temperature' = rows[Len(rows)].temperature

\* lines 308-318
WriteCsv ==
  /\ pc = "dmx_colors.csv"
  /\ dmx_colors' = [i \in 1..Len(combos) |-> write_row(combos[i])]
  /\ LastRow(dmx_colors')
  /\ pc' = "dmx_colors_by_brightness.csv"
  /\ UNCHANGED <<raised, wheel, index, combos, sorted_by_brightness,
                 dmx_colors_by_brightness, dots, swatches_by_brightness>>

\* lines 323-333
WriteCsvByBrightness ==
  /\ pc = "dmx_colors_by_brightness.csv"
  /\ dmx_colors_by_brightness' =
       [i \in 1..Len(sorted_by_brightness) |-> write_row(sorted_by_brightness[i])]
  /\ LastRow(dmx_colors_by_brightness')
  /\ pc' = "dots"
  /\ UNCHANGED <<raised, wheel, index, combos, sorted_by_brightness, dmx_colors,
                 dots, swatches_by_brightness>>

\* lines 877-879: the dot of a row, its wheel position in polar form
dot_at(row, c) ==
  [idx |-> row.idx, quin |-> row.quin, color |-> c,
   wheel |-> get_color_wheel_position(c[1], c[2], c[3])]
dot(row) ==
  dot_at(row, to_srgb(row.quin[1], row.quin[2], row.quin[3], row.quin[4],
                      row.quin[5]).color)

\* lines 877-889
WheelDots ==
  /\ pc = "dots"
  /\ dots' = [i \in 1..Len(combos) |-> dot(combos[i])]
  /\ IF combos = <<>>
     THEN UNCHANGED <<quin, color, group, temperature, wheel>>
     ELSE /\ quin' = combos[Len(combos)].quin
          /\ color' = dots'[Len(combos)].color
          /\ group' = [label |-> combos[Len(combos)].main_color,
                       category |-> combos[Len(combos)].category]
          /\ temperature' = combos[Len(combos)].temperature
          /\ wheel' = dots'[Len(combos)].wheel
  /\ pc' = "swatches"
  /\ UNCHANGED <<raised, brightness, index, combos, sorted_by_brightness,
                 dmx_colors, dmx_colors_by_brightness, swatches_by_brightness>>

\* lines 931-948
SwatchesByBrightness ==
  /\ pc = "swatches"
  /\ swatches_by_brightness' =
       [i \in 1..Len(sorted_by_brightness) |-> write_row(sorted_by_brightness[i])]
  /\ LastRow(swatches_by_brightness')
  /\ pc' = "end"
  /\ UNCHANGED <<raised, wheel, index, combos, sorted_by_brightness, dmx_colors,
                 dmx_colors_by_brightness, dots>>

\* lines 247-248; r, g, b, w, a are not bound before the loop
ScriptInit ==
  /\ quin = <<>>
  /\ pc = "for"
  /\ raised = NoException
  /\ color = <<>>
  /\ brightness = -1
  /\ group = NoGroup
  /\ temperature = ""
  /\ wheel = NoWheel
  /\ index = 1
  /\ combos = <<>>
  /\ sorted_by_brightness = <<>>
  /\ dmx_colors = <<>>
  /\ dmx_colors_by_brightness = <<>>
  /\ dots = <<>>
  /\ swatches_by_brightness = <<>>

ScriptNext ==
  \/ Combination
  \/ SortByBrightness
  \/ WriteCsv
  \/ WriteCsvByBrightness
  \/ WheelDots
  \/ SwatchesByBrightness

Script == ScriptInit /\ [][ScriptNext]_vars

(***************************************************************************)
(* Properties of the pipeline.  Each is stated over the run of one         *)
(* quintuple: a result is read once the call that produces it has          *)
(* returned.                                                               *)
(***************************************************************************)
Valid == \A i \in 1..5 : 0 <= quin[i] /\ quin[i] <= 255
Converted == pc \notin {"to_srgb", "raised"}
Quantized == pc \in {"get_color_group", "calculate_color_temperature",
                     "get_color_wheel_position", "done"}
Classified == pc \in {"calculate_color_temperature",
                      "get_color_wheel_position", "done"}
Tempered == pc \in {"get_color_wheel_position", "done"}
Placed == pc = "done"
max_channel == Max3(color[1], color[2], color[3])
min_channel == Min3(color[1], color[2], color[3])

\* C1: for valid quintuples to_srgb returns
\* (min(255, floor(r + w/2 + a/2)), min(255, floor(g + w/2 + 3a/8)),
\* min(255, floor(b + w/2))), fractions truncated and only clamped above;
\* (0,0,0,0,0) gives (0,0,0) and (255,255,255,0,0) gives (255,255,255).
C1_FloorThenClamp ==
  /\ (pc # "to_srgb" /\ Valid) =>
       color = << Min2(255, (2 * quin[1] + quin[4] + quin[5]) \div 2),
                  Min2(255, (8 * quin[2] + 4 * quin[4] + 3 * quin[5]) \div 8),
                  Min2(255, (2 * quin[3] + quin[4]) \div 2) >>
  /\ (pc # "to_srgb" /\ quin = <<0, 0, 0, 0, 0>>) => color = <<0, 0, 0>>
  /\ (pc # "to_srgb" /\ quin = <<255, 255, 255, 0, 0>>) => color = <<255, 255, 255>>

\* C1: a quintuple whose red sum is clamped and whose green and blue sums
\* have a fraction to drop (159.375 and 42.5)
C1_Witness ==
  /\ Placed
  /\ quin = <<255, 85, 0, 85, 85>>
  /\ color = <<255, 159, 42>>

\* C2: for valid quintuples every output channel of to_srgb is an integer
\* in 0..255.
C2_ChannelsInRange ==
  (pc # "to_srgb" /\ Valid) =>
    /\ Len(color) = 3
    /\ \A i \in 1..3 : color[i] \in 0..255

\* C2: all five channels full, every sum far above 255
C2_Witness ==
  /\ Converted
  /\ quin = <<255, 255, 255, 255, 255>>
  /\ color = <<255, 255, 255>>

\* C3: to_srgb raises the range error, naming an offending value and
\* producing no colour and no later result, if and only if one of its five
\* inputs is outside 0..255, whichever position it is in.
C3_RangeError ==
  pc # "to_srgb" =>
    /\ (raised.kind = "ValueError") <=> ~Valid
    /\ ~Valid =>
         /\ pc = "raised"
         /\ raised.val \in {quin[i] : i \in {j \in 1..5 : ~(0 <= quin[j] /\ quin[j] <= 255)}}
         /\ color = <<>>
         /\ brightness = -1 /\ group = NoGroup /\ temperature = "" /\ wheel = NoWheel
    /\ Valid => raised = NoException

\* C3: only the last position, amber, is out of range
C3_Witness ==
  /\ pc = "raised"
  /\ quin = <<0, 0, 0, 0, 256>>
  /\ raised = [kind |-> "ValueError", val |-> 256]
  /\ color = <<>>

\* the step function of C4 on luma = 0.299r + 0.587g + 0.114b, in thousandths
StepOfLuma(r, g, b) ==
  IF 299 * r + 587 * g + 114 * b < 42000 THEN 0
  ELSE IF 299 * r + 587 * g + 114 * b < 127000 THEN 85
  ELSE IF 299 * r + 587 * g + 114 * b < 212000 THEN 170
  ELSE 255

\* C4: perceived_brightness returns 0 when luma < 42, 85 when
\* 42 <= luma < 127, 170 when 127 <= luma < 212 and 255 when luma >= 212,
\* with luma = 0.299r + 0.587g + 0.114b; the result is a key of
\* intensity_names; black gives 0 and white gives 255.
C4_StepFunctionOfLuma ==
  Quantized =>
    /\ brightness = StepOfLuma(color[1], color[2], color[3])
    /\ brightness \in DOMAIN intensity_names
    /\ color = <<0, 0, 0>> => brightness = 0
    /\ color = <<255, 255, 255>> => brightness = 255

\* the decision table of C5 for colours that are neither black nor near
\* gray, x > 1.5 y read as 2x > 3y and x > 0.7 y as 10x > 7y
TableBase(r, g, b) ==
  IF r > g /\ r > b
  THEN IF 2 * g > 3 * b
       THEN <<IF 10 * g > 7 * r THEN "orange" ELSE "red-orange", "warm">>
       ELSE IF 10 * b > 7 * r THEN <<"magenta", "cool">> ELSE <<"red", "warm">>
  ELSE IF g > r /\ g > b
  THEN IF 2 * r > 3 * b THEN <<"yellow-green", "warm">>
       ELSE IF 10 * b > 7 * g THEN <<"teal", "cool">> ELSE <<"green", "cool">>
  ELSE IF b > r /\ b > g
  THEN IF 2 * r > 3 * g THEN <<"purple", "cool">>
       ELSE IF 10 * g > 7 * b THEN <<"cyan", "cool">> ELSE <<"blue", "cool">>
  ELSE IF r = g THEN <<"yellow", "warm">>
  ELSE IF r = b THEN <<"magenta", "cool">>
  ELSE <<"cyan", "cool">>

\* the whole table of C5: <<base label, category>>
Table(r, g, b) ==
  IF Max3(r, g, b) = 0 THEN <<"black", "neutral">>
  ELSE IF Max3(r, g, b) - Min3(r, g, b) < 30
  THEN IF Max3(r, g, b) < 85 THEN <<"dark gray", "neutral">>
       ELSE IF Max3(r, g, b) < 170 THEN <<"gray", "neutral">>
       ELSE <<"white", "neutral">>
  ELSE TableBase(r, g, b)

\* C5: the base label and the category of get_color_group are those of the
\* first matching rule of the decision table, thresholds exactly 1.5, 0.7,
\* 30, 85, 170; black, (200,200,200), pure red and pure blue come out as
\* (black, neutral), (white, neutral), (red, warm), (blue, cool).
C5_DecisionTable ==
  Classified =>
    /\ <<group.label[Len(group.label)], group.category>>
         = Table(color[1], color[2], color[3])
    /\ color = <<0, 0, 0>> => group = [label |-> <<"black">>, category |-> "neutral"]
    /\ color = <<200, 200, 200>> => group = [label |-> <<"white">>, category |-> "neutral"]
    /\ color = <<255, 0, 0>> => group = [label |-> <<"red">>, category |-> "warm"]
    /\ color = <<0, 0, 255>> => group = [label |-> <<"blue">>, category |-> "cool"]

\* C6 as stated: whichever rule chose the base label, a colour with
\* max < 170 that is not black is labelled "deep " + base, and a colour with
\* min > 170 is labelled "pastel " + base.
C6_ModifiersOnEveryLabel ==
  Classified =>
    /\ (max_channel < 170 /\ max_channel # 0) =>
         (Len(group.label) = 2 /\ group.label[1] = "deep")
    /\ min_channel > 170 =>
         (Len(group.label) = 2 /\ group.label[1] = "pastel")

\* C6: the modifier step applies to the labels chosen by the dominant-channel
\* and tie rules (max - min >= 30): "deep " in front when max < 170,
\* "pastel " in front when min > 170, the base label alone otherwise; black,
\* dark gray, gray and white are returned without a modifier.
C6_ModifiersOnChromaticLabels ==
  Classified =>
    IF max_channel - min_channel >= 30
    THEN group.label =
           (IF max_channel < 170 THEN <<"deep">>
            ELSE IF min_channel > 170 THEN <<"pastel">> ELSE <<>>)
             \o <<base_color(color[1], color[2], color[3])[1]>>
    ELSE group.label \in {<<"black">>, <<"dark gray">>, <<"gray">>, <<"white">>}

\* C6: a dark red, its label built from the base label "red"
C6_Witness ==
  /\ Classified
  /\ color = <<30, 0, 0>>
  /\ group = [label |-> <<"deep", "red">>, category |-> "warm"]

\* the decision table of C7 on channels v/255, compared in exact arithmetic:
\* the ratio r/b exceeds 3 when r > 3b, or when it is the stand-in 10
TableTemperature(r, g, b) ==
  IF 10 * Max3(r, g, b) < 255 THEN "neutral"
  ELSE IF (r > 0 /\ b > 0 /\ r > 3 * b) \/ (r > 0 /\ b = 0) THEN "very-warm"
  ELSE IF r > 0 /\ b > 0 /\ 2 * r > 3 * b THEN "warm"
  ELSE IF (r > 0 /\ b > 0 /\ b > 3 * r) \/ (b > 0 /\ r = 0) THEN "very-cool"
  ELSE IF r > 0 /\ b > 0 /\ 2 * b > 3 * r THEN "cool"
  ELSE IF 2 * g > 3 * (IF r > b THEN r ELSE b) THEN "cool"
  ELSE IF 10 * Abs(r - b) < 255 /\ 10 * r > 7 * 255 /\ 10 * g > 7 * 255 THEN "neutral"
  ELSE IF 10 * Abs(r - b) < 2 * 255 THEN "neutral"
  ELSE IF r > b THEN "warm" ELSE "cool"

\* C7: calculate_color_temperature returns the result of the first matching
\* rule of its decision table on the normalised channels (max < 0.1, the
\* ratios against 3 and 1.5, g against 1.5 max(r,b), |r-b| against 0.1 and
\* 0.2, else r against b); pure red is very-warm, pure blue very-cool,
\* (200,200,200) neutral.
C7_TemperatureTable ==
  Tempered =>
    /\ temperature = TableTemperature(color[1], color[2], color[3])
    /\ color = <<255, 0, 0>> => temperature = "very-warm"
    /\ color = <<0, 0, 255>> => temperature = "very-cool"
    /\ color = <<200, 200, 200>> => temperature = "neutral"

\* C8: no call divides by zero: the ratios are taken only when r and b are
\* both positive, the wheel divides by delta and by max_val only when they
\* are not zero; the only exception a run can raise is the ValueError of
\* the validation.
C8_NoZeroDivision ==
  /\ raised.kind \in {"", "ValueError"}
  /\ temperature # "ZeroDivisionError"
  /\ wheel.raised = ""
  /\ (Valid /\ pc # "to_srgb") => (raised = NoException /\ pc # "raised")
  /\ Tempered => temperature \in {"very-warm", "warm", "neutral", "cool", "very-cool"}

\* C8: pure red, with no blue to divide by, has gone through every call
C8_Witness ==
  /\ Placed
  /\ color = <<255, 0, 0>>
  /\ temperature = "very-warm"
  /\ raised = NoException

\* C9 as stated: black is at the wheel centre and no other colour is (the
\* saturation, the radius of the point, is zero for black only).
C9_CentreOnlyBlack ==
  Placed => (wheel.saturation = FZero <=> color = <<0, 0, 0>>)

\* C9: black is at the wheel centre, and a colour is at the centre exactly
\* when its three channels are equal: black and every gray up to white have
\* saturation zero, every other colour has not.
C9_CentreIsAchromatic ==
  Placed =>
    /\ (wheel.saturation = FZero <=> (color[1] = color[2] /\ color[2] = color[3]))
    /\ color = <<0, 0, 0>> => wheel = NoWheel

\* C9: a gray at the centre
C9_Witness ==
  /\ Placed
  /\ color = <<85, 85, 85>>
  /\ wheel.saturation = FZero

\* C10: for a colour that is not black the hue is in [0, 360), in [60, 180]
\* on the green branch and in [180, 300] on the blue branch, and the
\* saturation delta/max is in [0, 1], so that neither coordinate
\* saturation * cos, saturation * sin leaves [-1, 1]; when the smallest
\* channel is 0 and the largest is not, the saturation is exactly 1.
C10_HueAndSaturationRanges ==
  (Placed /\ color # <<0, 0, 0>>) =>
    /\ FGe(wheel.hue, FZero) /\ FLt(wheel.hue, FOfInt(360))
    /\ (color[1] # max_channel /\ color[2] = max_channel) =>
         (FGe(wheel.hue, FOfInt(60)) /\ FGe(FOfInt(180), wheel.hue))
    /\ (color[1] # max_channel /\ color[2] # max_channel) =>
         (FGe(wheel.hue, FOfInt(180)) /\ FGe(FOfInt(300), wheel.hue))
    /\ FGe(wheel.saturation, FZero) /\ FGe(FOfInt(1), wheel.saturation)
    /\ min_channel = 0 => wheel.saturation = FOfInt(1)

\* C10: magenta on the red branch, where g - b is negative and the quotient
\* -1 is reduced to 5, at 300 degrees on the unit circle
C10_Witness ==
  /\ Placed
  /\ color = <<255, 0, 255>>
  /\ wheel.hue = FOfInt(300)
  /\ wheel.saturation = FOfInt(1)

\* C11: the quintuple (85, 0, 170, 0, 255) gives the colour (212, 95, 170),
\* brightness 170 named "Mid", the label magenta without modifier in the
\* category cool, the temperature neutral, and a wheel position of
\* saturation 117/212 with a hue of the red branch between 300 and 360.
C11_ReferenceTrace ==
  quin = <<85, 0, 170, 0, 255>> =>
    /\ pc # "raised"
    /\ Converted => color = <<212, 95, 170>>
    /\ Quantized => (brightness = 170 /\ intensity_names[brightness] = "Mid")
    /\ Classified => group = [label |-> <<"magenta">>, category |-> "cool"]
    /\ Tempered => temperature = "neutral"
    /\ Placed =>
         /\ color[1] = max_channel
         /\ FGt(wheel.hue, FOfInt(300)) /\ FLt(wheel.hue, FOfInt(360))
         /\ wheel.saturation = FLit(117, 212)

\* C11: the quintuple has gone through all five calls
C11_Witness ==
  /\ Placed
  /\ quin = <<85, 0, 170, 0, 255>>
  /\ color = <<212, 95, 170>>
  /\ temperature = "neutral"

\* the colours of 0..255^3 in which no channel is strictly the largest: the
\* largest value p[1] is taken by two channels at least, p[2] is the third
NoDominantColors ==
  { IF p[3] = 1 THEN <<p[2], p[1], p[1]>>
    ELSE IF p[3] = 2 THEN <<p[1], p[2], p[1]>> ELSE <<p[1], p[1], p[2]>> :
      p \in {q \in (0..255) \X (0..255) \X (1..3) : q[2] <= q[1]} }

\* the base label, the last word of a label
BaseLabel(label) == label[Len(label)]

\* those of them, neither black nor near gray, that get_color_group calls mixed
MixedColors ==
  {c \in NoDominantColors :
     /\ Max3(c[1], c[2], c[3]) - Min3(c[1], c[2], c[3]) >= 30
     /\ BaseLabel(get_color_group(c[1], c[2], c[3]).label) = "mixed"}

\* C15 as stated: some colour with max - min >= 30 and no strictly dominant
\* channel matches none of the three tie rules, and get_color_group returns
\* the base label "mixed" for it (a colour of 0..255^3, or the one at hand).
C15_MixedReachable ==
  \/ MixedColors # {}
  \/ Classified /\ BaseLabel(group.label) = "mixed"

\* C15: the last branch of get_color_group is never taken.  A colour with
\* max - min >= 30 and no strictly dominant channel has its largest value in
\* exactly two channels, so one of the tie rules matches and the base label
\* is yellow, magenta or cyan; no colour of 0..255^3 is labelled "mixed".
C15_MixedUnreachable ==
  /\ MixedColors = {}
  /\ Classified =>
       /\ BaseLabel(group.label) # "mixed"
       /\ (max_channel - min_channel >= 30 /\ color \in NoDominantColors) =>
            /\ Cardinality({i \in 1..3 : color[i] = max_channel}) = 2
            /\ <<BaseLabel(group.label), group.category>> =
                 (IF color[1] = color[2] THEN <<"yellow", "warm">>
                  ELSE IF color[1] = color[3] THEN <<"magenta", "cool">>
                  ELSE <<"cyan", "cool">>)

\* C15: green and blue tie above red, the last of the tie rules
C15_Witness ==
  /\ Classified
  /\ color = <<0, 255, 255>>
  /\ group = [label |-> <<"cyan">>, category |-> "cool"]

BelowMidpoint(l) ==
  \E t \in {42000, 127000, 212000} : t <= l /\ l < t + 500

C18_OneModifierAtMost ==
  Classified =>
    /\ Len(group.label) \in {1, 2}
    /\ ~(\E i \in 1..Len(group.label) : group.label[i] = "deep"
         /\ \E j \in 1..Len(group.label) : group.label[j] = "pastel")
    /\ Len(group.label) = 2 =>
         \/ group.label[1] = "deep" /\ max_channel < 170 /\ min_channel <= 170
         \/ group.label[1] = "pastel" /\ min_channel > 170 /\ max_channel >= 170

\* C18: a pastel colour, every channel above 170
C18_Witness ==
  /\ Classified
  /\ color = <<255, 204, 255>>
  /\ group.label = <<"pastel", "magenta">>

\* C19: when get_color_group puts a colour in the category warm, its red
\* channel exceeds its blue channel and calculate_color_temperature gives
\* very-warm, warm or neutral, never cool or very-cool.
C19_WarmIsNeverCool ==
  (Tempered /\ group.category = "warm") =>
    /\ color[1] > color[3]
    /\ temperature \in {"very-warm", "warm", "neutral"}

\* C19: a yellow-green with more than 1.5 times as much green as red, warm
\* by its category and very-warm by its ratio of red to blue
C19_Witness ==
  /\ Tempered
  /\ color = <<85, 255, 0>>
  /\ group = [label |-> <<"yellow-green">>, category |-> "warm"]
  /\ temperature = "very-warm"

(***************************************************************************)
(* Properties of the script.  What the script stores and writes is held    *)
(* against the functions themselves, applied to each quintuple of the grid.*)
(***************************************************************************)
\* the five functions on the colour c of a quintuple
ResultOfColor(c) ==
  [color |-> c,
   brightness |-> perceived_brightness(c[1], c[2], c[3]),
   group |-> get_color_group(c[1], c[2], c[3]),
   temperature |-> calculate_color_temperature(c[1], c[2], c[3]),
   wheel |-> get_color_wheel_position(c[1], c[2], c[3])]
ResultOfQuintuple(q) == ResultOfColor(to_srgb(q[1], q[2], q[3], q[4], q[5]).color)

\* the results of the grid, by the number of the visit of the quintuple
ResultAt == [n \in 1..total_combinations |-> ResultOfQuintuple(NthQuintuple(n))]
Result(q) == ResultAt[Visit(q)]

\* the loop is over, or how far it is
LoopDone == pc # "for"
Visited == IF LoopDone THEN total_combinations ELSE Visit(quin)

Kept(q) ==
  /\ ~(q[1] = 255 /\ q[2] = 255 /\ q[3] = 255)
  /\ Result(q).brightness # 0

\* C13: at every step of the loop and after it combos holds, in visiting
\* order, exactly the visited quintuples that are not r = g = b = 255 and
\* whose brightness is not 0; the i-th row carries the index i, and
\* index = len(combos) + 1.  No row written has brightness 0 or r = g = b = 255.
C13_CombosAreTheKeptQuintuples ==
  /\ [i \in 1..Len(combos) |-> combos[i].quin]
       = SelectSeq([n \in 1..Visited |-> NthQuintuple(n)], Kept)
  /\ \A i \in 1..Len(combos) : combos[i].idx = i
  /\ index = Len(combos) + 1
  /\ \A rows \in {dmx_colors, dmx_colors_by_brightness, swatches_by_brightness} :
       \A i \in 1..Len(rows) :
         /\ rows[i].brightness # 0
         /\ ~(rows[i].quin[1] = 255 /\ rows[i].quin[2] = 255 /\ rows[i].quin[3] = 255)

\* C13: the loop has come to its end with 1000 of the 1024 quintuples kept
C13_Witness ==
  /\ pc = "sorted"
  /\ quin = <<255, 255, 255, 255, 255>>
  /\ Len(combos) = 1000
  /\ index = 1001

\* the sort is done
Sorted == pc \in {"dmx_colors.csv", "dmx_colors_by_brightness.csv", "dots",
                  "swatches", "end"}

\* perceived_brightness(to_srgb(r, g, b, w, 0)) for the quintuple of a row
AmberOffBrightness(x) ==
  Result(<<x.quin[1], x.quin[2], x.quin[3], x.quin[4], 0>>).brightness

\* C14: sorted_by_brightness is a permutation of combos, the same rows with
\* their indices, in non-decreasing order of the key
\* perceived_brightness(to_srgb(r, g, b, w, 0)); rows that differ only in
\* amber have the same key.
C14_SortedPermutation ==
  Sorted =>
    /\ Len(sorted_by_brightness) = Len(combos)
    /\ \A row \in {combos[i] : i \in 1..Len(combos)} :
         Cardinality({i \in 1..Len(combos) : combos[i] = row})
           = Cardinality({i \in 1..Len(combos) : sorted_by_brightness[i] = row})
    /\ \A i \in 1..(Len(sorted_by_brightness) - 1) :
         AmberOffBrightness(sorted_by_brightness[i])
           <= AmberOffBrightness(sorted_by_brightness[i + 1])
    /\ pc = "dmx_colors.csv" =>
         \A i \in 1..Len(combos) :
           /\ brightness_key(combos[i]) = AmberOffBrightness(combos[i])
           /\ brightness_key([combos[i] EXCEPT !.quin[5] = 0]) = brightness_key(combos[i])

\* C14: the sort has moved rows: the row of index 1 has the least key and
\* stays first, the last of sorted_by_brightness is not the last of combos
C14_Witness ==
  /\ pc = "dmx_colors.csv"
  /\ Len(sorted_by_brightness) = 1000
  /\ sorted_by_brightness[1].idx = 1
  /\ \E i \in 1..1000 : sorted_by_brightness[i].idx # i
  /\ AmberOffBrightness(sorted_by_brightness[1]) < AmberOffBrightness(sorted_by_brightness[1000])

\* C17 as stated: in the output sorted by brightness, the file and the
\* section of the page, the Brightness written for each row,
\* perceived_brightness(to_srgb(r, g, b, w, a)), is non-decreasing from the
\* first row to the last.
C17_WrittenBrightnessAscending ==
  \A rows \in {dmx_colors_by_brightness, swatches_by_brightness} :
    \A i \in 1..(Len(rows) - 1) : rows[i].brightness <= rows[i + 1].brightness

\* C17: the output sorted by brightness is in non-decreasing order of the
\* sort key perceived_brightness(to_srgb(r, g, b, w, 0)), amber left out,
\* rows of equal key in ascending order of their index.  The Brightness
\* written for a row counts amber: it is the key when a = 0 and never below
\* the key, and it is not in ascending order from the first row to the last.
C17_WrittenInKeyOrder ==
  \A rows \in {dmx_colors_by_brightness, swatches_by_brightness} :
    /\ \A i \in 1..(Len(rows) - 1) :
         \/ AmberOffBrightness(rows[i]) < AmberOffBrightness(rows[i + 1])
         \/ /\ AmberOffBrightness(rows[i]) = AmberOffBrightness(rows[i + 1])
            /\ rows[i].idx < rows[i + 1].idx
    /\ \A i \in 1..Len(rows) :
         /\ rows[i].brightness = Result(rows[i].quin).brightness
         /\ rows[i].brightness >= AmberOffBrightness(rows[i])
         /\ rows[i].quin[5] = 0 => rows[i].brightness = AmberOffBrightness(rows[i])
    /\ rows # <<>> =>
         \E i \in 1..(Len(rows) - 1) : rows[i].brightness > rows[i + 1].brightness

\* C17: both outputs are written, and the file has a row of brightness 170,
\* full amber on a dark colour, before a row of brightness 85
C17_Witness ==
  /\ pc = "end"
  /\ Len(swatches_by_brightness) = 1000
  /\ \E i \in 1..999 :
       /\ dmx_colors_by_brightness[i].brightness = 170
       /\ dmx_colors_by_brightness[i].quin[5] = 255
       /\ dmx_colors_by_brightness[i + 1].brightness = 85

=============================================================================
